---- MODULE Spec2Model ----
(***************************************************************************)
(* Batch collaters of evodiff (src/dms/collaters.py): the padding helpers  *)
(* _pad / _pad_msa / _unpad, sample_transition_matrix and the collaters    *)
(* OAMaskCollater, MSAAbsorbingARDMCollater, D3PMCollater, D3PMCollaterMSA.*)
(*                                                                         *)
(* Python positions 0..n-1 are the TLA+ positions 1..n of a sequence; a    *)
(* set of Python indices (mask_arr) is kept 0-based, as numpy returns it.  *)
(* A call is one action: it reads its arguments, makes its random draws    *)
(* (\E over every value the generator can return) and leaves either the    *)
(* returned tuple or the raised exception.                                 *)
(***************************************************************************)
EXTENDS Integers, Sequences, FiniteSets, TLC

VARIABLES pc, op, args, draws, console, ret, qbar_idx, rng, kept, config, raw

vars == <<pc, op, args, draws, console, ret, qbar_idx, rng, kept, config, raw>>

\* ------------------------------------------------------------- bounds
\* A batch of strings costs 1 + len(s) per string; batches up to this cost.
MaxTokens == 6
\* num_seqs of the MSA collaters (64 by default), scaled down.
NumSeqs == 2
\* An MSA costs 2 + rows x depth (3 without columns); batches up to this cost.
MaxCells == 10
\* num_timesteps of the D3PM collaters (100 by default), scaled down.
NumTimesteps == 3
\* Seeds 1..MaxSeed are tried for the global generators.
MaxSeed == 2

\* ------------------------------------------------------------- helpers
Max(S) == CHOOSE m \in S : \A x \in S : x <= m

Range(s) == {s[i] : i \in 1..Len(s)}

RECURSIVE SeqProduct(_)
\* All sequences whose i-th item is drawn from the i-th set of ss.
SeqProduct(ss) ==
  IF ss = <<>> THEN {<<>>}
  ELSE {<<h>> \o t : h \in Head(ss), t \in SeqProduct(Tail(ss))}

SeqsUpTo(S, n) == UNION {[1..m -> S] : m \in 0..n}

RECURSIVE Batches(_, _)
\* Every batch (list) of sequences over S whose cost is at most w.
Batches(S, w) ==
  IF w < 1 THEN {<<>>}
  ELSE {<<>>} \cup
       UNION { {<<s>> \o b : b \in Batches(S, w - 1 - Len(s))} : s \in SeqsUpTo(S, w - 1) }

RECURSIVE Concat(_)
Concat(ss) == IF ss = <<>> THEN <<>> ELSE Head(ss) \o Concat(Tail(ss))

\* Python's bool -> int in arithmetic (True * x).
BoolInt(b) == IF b THEN 1 ELSE 0

\* --------------------------------------------------------- vocabulary
\* dms.utils.Tokenizer over sequence_models.constants: residue letters first
\* (two of them here), then the special tokens, pad and mask among them.
CAN_AAS == <<"A", "C">>
Alphabet == CAN_AAS \o <<"-", "#">>
ResidueLetters == Range(CAN_AAS)
a_to_i(a) == (CHOOSE i \in 1..Len(Alphabet) : Alphabet[i] = a) - 1
tokenize(s) == [j \in 1..Len(s) |-> a_to_i(s[j])]
pad_id == a_to_i("-")
mask_id == a_to_i("#")
Residues == {a_to_i(a) : a \in ResidueLetters}
\* Number of one-hot categories of the D3PM collaters.
K == Len(CAN_AAS)
\* Tokenizer.one_hot: one row of K entries per token, 1 at the token's index.
one_hot(t) == [j \in 1..Len(t) |-> [c \in 1..K |-> BoolInt(t[j] = c - 1)]]

\* -------------------------------------------------------- tensor dtypes
RECURSIVE F32Ulp(_)
F32Ulp(m) == IF m < 2^24 THEN 1 ELSE 2 * F32Ulp(m \div 2)
\* The value an integer has once stored in a float32 tensor (torch.zeros'
\* default dtype): 24 bits of mantissa, round to nearest, ties to even.
F32(n) ==
  LET a == IF n < 0 THEN -n ELSE n
      u == F32Ulp(a)
      q == a \div u
      r == a % u
      m == IF 2 * r > u \/ (2 * r = u /\ q % 2 = 1) THEN q + 1 ELSE q
  IN  IF n < 0 THEN -(m * u) ELSE m * u

\* An integer a float32 tensor cannot hold: 2^24 + 1.
BigInt == 2^24 + 1

\* ------------------------------------------------------ results of a call
Returned(v) == [status |-> "returned", value |-> v]
Raised(e) == [status |-> "raised", exc |-> e]
IsReturned(r) == r.status = "returned"

\* ------------------------------------------------------------- _pad
\* Mutant of Pad2: the fill value is forgotten (zeros without `+ value`).
Pad2_ZeroFill(tokenized, value) ==
  LET max_len == Max({Len(t) : t \in Range(tokenized)})
  IN  [row \in 1..Len(tokenized) |->
        [j \in 1..max_len |->
          IF j <= Len(tokenized[row]) THEN F32(tokenized[row][j]) ELSE F32(0)]]

\* dim=2 of _pad: output = zeros((batch_size, max_len)) + value, then
\* output[row, :len(t)] = t.
Pad2(tokenized, value) ==
  LET max_len == Max({Len(t) : t \in Range(tokenized)})
  IN  [row \in 1..Len(tokenized) |->
        [j \in 1..max_len |->
          IF j <= Len(tokenized[row]) THEN F32(tokenized[row][j]) ELSE F32(0 + value)]]

\* dim=3 of _pad: categories = tokenized[0].shape[-1]; the examples are
\* (len, categories) tensors, kept here with their shape.
Pad3(tokenized, value) ==
  LET max_len == Max({Len(t.rows) : t \in Range(tokenized)})
      categories == tokenized[1].cats
  IN  [row \in 1..Len(tokenized) |->
        [j \in 1..max_len |->
          IF j <= Len(tokenized[row].rows)
            THEN [c \in 1..categories |-> F32(tokenized[row].rows[j][c])]
            ELSE [c \in 1..categories |-> F32(0 + value)]]]

\* What _pad prints.
PadPrints(dim) == IF dim \in {2, 3} THEN <<>> ELSE <<"padding not supported for dim > 3">>

\* _pad(tokenized, value, dim). max() of an empty batch raises ValueError;
\* for any other dim the else branch prints and falls through to
\* `return output`, a name no branch has bound: UnboundLocalError.
Pad(tokenized, value, dim) ==
  IF Len(tokenized) = 0 THEN Raised("ValueError")
  ELSE IF dim = 3 THEN Returned(Pad3(tokenized, value))
  ELSE IF dim = 2 THEN Returned(Pad2(tokenized, value))
  ELSE Raised("UnboundLocalError")

\* (len, K) tensor of a tokenized sequence, as Tokenizer.one_hot returns it.
OneHotTensor(t) == [rows |-> one_hot(t), cats |-> K]

\* ------------------------------------------------------------- _unpad
\* Mutant of Unpad: the mask is inverted (x == value), keeping the padding.
Unpad_KeepsPadding(x, value) ==
  LET flat == Concat(x)
  IN  SelectSeq(flat, LAMBDA e : e = F32(value))

\* x[x != value].to(int64): boolean-mask indexing of a (batch, max_len)
\* tensor returns ONE 1-D tensor, the kept elements in row-major order.
Unpad(x, value) ==
  LET flat == Concat(x)
  IN  SelectSeq(flat, LAMBDA e : e # F32(value))

\* ------------------------------------------------------------- _pad_msa
\* A tokenized MSA is a (rows, depth) tensor: a sequence of rows.
Depth(m) == Len(m[1])

\* Tokenizer.tokenizeMSA, applied by the collaters to each string of an MSA.
tokenizeMSA(s) == tokenize(s)
\* The (rows, depth) token tensor and (rows, depth, K) one-hot tensor of an MSA.
TokenizedMSA(msa) == [r \in 1..Len(msa) |-> tokenizeMSA(msa[r])]
OneHotMSA(msa) == [r \in 1..Len(msa) |-> one_hot(tokenizeMSA(msa[r]))]
\* longest_msa / max_seq_len as the loops leave it (0 before any MSA).
LongestDepth(msas) == IF Len(msas) = 0 THEN 0 ELSE Max({Depth(m) : m \in Range(msas)})

\* Whether `output[i, :, :depth] = m` is a legal assignment: the source's
\* row axis must equal num_seq or be 1 (torch broadcasts a size-1 axis).
\* Every caller passes max_len >= the depth of every MSA.
FitsMSA(m, num_seq) == Len(m) = num_seq \/ Len(m) = 1

\* Mutant of PadMSASlab: the fill value is forgotten (zeros without `+ value`).
PadMSASlab_ZeroFill(m, num_seq, max_len, value) ==
  [r \in 1..num_seq |->
    [j \in 1..max_len |->
      IF j <= Depth(m) THEN m[IF Len(m) = 1 THEN 1 ELSE r][j] ELSE 0]]

\* One (num_seq, max_len) slab of the dim=3 output: zeros + value, then the
\* MSA copied (or broadcast) into the first Depth(m) columns.
PadMSASlab(m, num_seq, max_len, value) ==
  [r \in 1..num_seq |->
    [j \in 1..max_len |->
      IF j <= Depth(m) THEN m[IF Len(m) = 1 THEN 1 ELSE r][j] ELSE 0 + value]]

\* The same for dim=4: every position is a row of `categories` entries.
PadMSASlab4(m, num_seq, max_len, value, categories) ==
  [r \in 1..num_seq |->
    [j \in 1..max_len |->
      IF j <= Depth(m) THEN m[IF Len(m) = 1 THEN 1 ELSE r][j]
      ELSE [c \in 1..categories |-> 0 + value]]]

\* What _pad_msa prints.
PadMSAPrints(dim) == IF dim \in {3, 4} THEN <<>> ELSE <<"padding not supported for dim > 4">>

\* _pad_msa(tokenized, num_seq, max_len, value, dim). dim=4 reads
\* tokenized[0].shape[-1] first (IndexError on an empty batch), which is K
\* for every one-hot tensor of the tokenizer; a shape that cannot be
\* broadcast raises RuntimeError; any other dim prints and then fails on the
\* unbound name `output`.
PadMSA(tokenized, num_seq, max_len, value, dim) ==
  IF dim = 4 THEN
    IF Len(tokenized) = 0 THEN Raised("IndexError")
    ELSE IF \E i \in 1..Len(tokenized) : ~FitsMSA(tokenized[i], num_seq)
      THEN Raised("RuntimeError")
    ELSE Returned([i \in 1..Len(tokenized) |->
                    PadMSASlab4(tokenized[i], num_seq, max_len, value, K)])
  ELSE IF dim = 3 THEN
    IF \E i \in 1..Len(tokenized) : ~FitsMSA(tokenized[i], num_seq)
      THEN Raised("RuntimeError")
    ELSE Returned([i \in 1..Len(tokenized) |->
                    PadMSASlab(tokenized[i], num_seq, max_len, value)])
  ELSE Raised("UnboundLocalError")

\* ------------------------------------------------------- numpy draws
\* np.random.randint(low, high): low inclusive, high exclusive.
RandInt(low, high) == low..(high - 1)
\* np.random.choice(a, size, replace=False): `size` distinct indices of
\* 0..a-1 (their order is never read: only membership, or assignment of one
\* value to all of them). size > a is a ValueError: no result.
Choice(a, size) == {S \in SUBSET (0..(a - 1)) : Cardinality(S) = size}

\* ------------------------------------------------------- OAMaskCollater
\* Mutant of OATimesteps: the upper bound of randint made inclusive.
OATimesteps_Inclusive(D) == IF D <= 1 THEN {1} ELSE RandInt(1, D + 1)

\* Mutant of OATimesteps: the degenerate branch sets t = 2.
OATimesteps_DegenerateTwo(D) == IF D <= 1 THEN {2} ELSE RandInt(1, D)

\* Lines 92-95: t = 1 when D <= 1, else np.random.randint(1, D).
OATimesteps(D) == IF D <= 1 THEN {1} ELSE RandInt(1, D)

\* Every (t, mask_arr) the generator can produce for an example of length D.
OADraws(D) ==
  UNION { {[t |-> t, mask_arr |-> S] : S \in Choice(D, D - t + 1)} : t \in OATimesteps(D) }

\* Mutant of OAMaskRow: the index array starts at 1 (arange(1, max_len + 1)).
OAMaskRow_OneBased(mask_arr, max_len) == [j \in 1..max_len |-> j \in mask_arr]

\* Lines 101-104: mask = isin(arange(0, max_len), mask_arr), max_len long.
OAMaskRow(mask_arr, max_len) == [j \in 1..max_len |-> (j - 1) \in mask_arr]

\* Line 106: x_t = ~mask[0:D] * x + mask[0:D] * mask_id.
OACorrupt(x, mask) ==
  [j \in 1..Len(x) |-> BoolInt(~mask[j]) * x[j] + BoolInt(mask[j]) * mask_id]

\* OAMaskCollater.__call__(sequences) with the draws dr (one per example).
\* max() of an empty batch raises ValueError. The padded tensors are
\* float32; .to(torch.long) truncates values that are all integral.
OAMaskCollater(sequences, dr) ==
  IF Len(sequences) = 0 THEN Raised("ValueError")
  ELSE
    LET tokenized == [i \in 1..Len(sequences) |-> tokenize(sequences[i])]
        max_len == Max({Len(t) : t \in Range(tokenized)})
        n == Len(tokenized)
        timesteps == [i \in 1..n |-> Len(tokenized[i]) - dr[i].t + 1]
        masks == [i \in 1..n |-> OAMaskRow(dr[i].mask_arr, max_len)]
        src == [i \in 1..n |-> OACorrupt(tokenized[i], masks[i])]
        masks01 == [i \in 1..n |-> [j \in 1..max_len |-> BoolInt(masks[i][j])]]
    IN  Returned([src |-> Pad(src, pad_id, 2).value,
                  timesteps |-> timesteps,
                  tokenized |-> Pad(tokenized, pad_id, 2).value,
                  masks |-> Pad(masks01, 0, 2).value])

\* ------------------------------------------- MSAAbsorbingARDMCollater
\* self.pad_idx = alphabet.index(pad_token), pad_token the PAD letter.
pad_idx == a_to_i("-")

\* Lines 157-158: t = np.random.choice(d); t += 1.
MSAOATimesteps(d) == {c + 1 : c \in 0..(d - 1)}

\* Mutant of MSAOADraws: num_masked_tokens = d - t.
MSAOADraws_NoPlusOne(d) ==
  UNION { {[t |-> t, mask_idx |-> S] : S \in Choice(d, d - t)} : t \in MSAOATimesteps(d) }

\* Lines 157-161: every (t, mask_idx) the generator can produce for an MSA
\* of d flattened positions; num_masked_tokens = d - t + 1.
MSAOADraws(d) ==
  UNION { {[t |-> t, mask_idx |-> S] : S \in Choice(d, d - t + 1)} : t \in MSAOATimesteps(d) }

\* Lines 155-163: flatten (row-major), curr_msa[mask_idx] = mask_id, reshape.
MSAMaskTokens(m, mask_idx) ==
  [r \in 1..Len(m) |->
    [j \in 1..Depth(m) |->
      IF ((r - 1) * Depth(m) + (j - 1)) \in mask_idx THEN mask_id ELSE m[r][j]]]

\* The exception the call ends with whatever is drawn: np.random.choice(0)
\* raises ValueError inside the loop for an MSA without positions; _pad_msa
\* raises after the loop.
MSAAbsorbingError(batch_msa) ==
  IF \E i \in 1..Len(batch_msa) : Depth(batch_msa[i]) = 0 THEN "ValueError"
  ELSE IF \E i \in 1..Len(batch_msa) : ~FitsMSA(batch_msa[i], NumSeqs) THEN "RuntimeError"
  ELSE "none"

\* MSAAbsorbingARDMCollater.__call__(batch_msa) with the draws dr.
MSAAbsorbingARDMCollater(batch_msa, dr) ==
  LET n == Len(batch_msa)
      tgt == [i \in 1..n |-> TokenizedMSA(batch_msa[i])]
      src == [i \in 1..n |-> MSAMaskTokens(tgt[i], dr[i].mask_idx)]
      longest_msa == LongestDepth(batch_msa)
      psrc == PadMSA(src, NumSeqs, longest_msa, pad_idx, 3)
      ptgt == PadMSA(tgt, NumSeqs, longest_msa, pad_idx, 3)
  IN  IF ~IsReturned(psrc) THEN psrc
      ELSE Returned([src |-> psrc.value,
                     tgt |-> ptgt.value,
                     mask |-> [i \in 1..n |-> [r \in 1..NumSeqs |-> [j \in 1..longest_msa |->
                                 psrc.value[i][r][j] = mask_id]]]])

\* ------------------------------------------------------- schedules
\* The schedule handed to the D3PM collaters (built by the tokenizer's
\* schedule builder): per-step matrices Q_t, as integer weights over the
\* denominator NumTimesteps - t + 1, and their cumulative products.  Residue
\* a moves to a + 1 with probability 1 / (NumTimesteps - t + 1); the last
\* residue is absorbing.
QStep(t) ==
  [a \in 1..K |-> [b \in 1..K |->
     IF a = K THEN (IF b = a THEN NumTimesteps - t + 1 ELSE 0)
     ELSE IF b = a THEN NumTimesteps - t
     ELSE IF b = a + 1 THEN 1 ELSE 0]]

RECURSIVE SumTo(_, _)
SumTo(f, n) == IF n = 0 THEN 0 ELSE f[n] + SumTo(f, n - 1)

\* torch.mm on (n, K) x (K, K).
MatMul(x, m) ==
  [r \in 1..Len(x) |-> [c \in 1..K |-> SumTo([k \in 1..K |-> x[r][k] * m[k][c]], K)]]

RECURSIVE QProd(_)
\* Q_1 Q_2 ... Q_t (the identity for t = 0).
QProd(t) ==
  IF t = 0 THEN [a \in 1..K |-> [b \in 1..K |-> BoolInt(a = b)]]
  ELSE MatMul(QProd(t - 1), QStep(t))

\* self.Q_bar: one cumulative matrix per t in 0..NumTimesteps.
Q_bar == [t \in 0..NumTimesteps |-> QProd(t)]

\* ---------------------------------------------- sample_transition_matrix
\* torch.multinomial(p, num_samples=1): per row one index of non-zero
\* probability; shape (n, 1).
Multinomial(p) == SeqProduct([r \in 1..Len(p) |-> {c - 1 : c \in {k \in 1..K : p[r][k] > 0}}])

\* Tensor.squeeze() of an (n, 1) tensor: every axis of size 1 goes, so a
\* single row leaves a 0-d tensor.
Squeeze(column) ==
  IF Len(column) = 1 THEN [shape |-> <<>>, data |-> column]
  ELSE [shape |-> <<Len(column)>>, data |-> column]

\* Mutant of sample_transition_matrix: the probability rows come back in
\* reverse row order.
sample_transition_matrix_RowsReversed(x_0, Q_bar_t, pick) ==
  [next_step |-> Squeeze(pick),
   p_next_step |-> [r \in 1..Len(x_0) |-> MatMul(x_0, Q_bar_t)[Len(x_0) + 1 - r]]]

\* sample_transition_matrix(x_0, Q_bar) with the sample `pick` that
\* multinomial returns.
sample_transition_matrix(x_0, Q_bar_t, pick) ==
  [next_step |-> Squeeze(pick), p_next_step |-> MatMul(x_0, Q_bar_t)]

\* What the libraries of the build do where versions differ: whether
\* torch.multinomial raises on a (0, K) input, and whether the tokenizer's
\* one_hot raises on a 0-d tensor.
Builds == [multinomial_empty_raises : BOOLEAN, one_hot_0d_raises : BOOLEAN]

\* ------------------------------------------------------- D3PMCollater
\* Mutant of D3PMTimesteps: the range starts at 0.
D3PMTimesteps_FromZero == RandInt(0, NumTimesteps)

\* Lines 230 and 279: t = np.random.randint(1, self.num_timesteps).
D3PMTimesteps == RandInt(1, NumTimesteps)

\* Lines 209-213: del_index ends as the LAST index of an empty example
\* (1-based here; 0 stands for None).
DelIndex(tokenized) ==
  LET empties == {i \in 1..Len(tokenized) : Len(tokenized[i]) = 0}
  IN  IF empties = {} THEN 0 ELSE Max(empties)

\* Lines 217-219: tokenized.pop(del_index).
Pop(tokenized, del_index) ==
  IF del_index = 0 THEN tokenized
  ELSE [i \in 1..(Len(tokenized) - 1) |->
          IF i < del_index THEN tokenized[i] ELSE tokenized[i + 1]]

ZeroRow == [c \in 1..K |-> 0]
\* rows written into the first Len(rows) positions of a zero (max_len, K) slab.
IntoZeros(rows, max_len) == [j \in 1..max_len |-> IF j <= Len(rows) THEN rows[j] ELSE ZeroRow]

\* Every (t, pick) the generators can produce for clean one-hot rows x.
D3PMDraws(x) ==
  UNION { {[t |-> t, pick |-> s] : s \in Multinomial(MatMul(x, Q_bar[t]))} : t \in D3PMTimesteps }

\* The exception the call ends with whatever is drawn.  In the loop, an
\* example left with no token fails in torch.multinomial (on builds where
\* that raises) and an example of one token gets a 0-d x_t, on which the
\* tokenizer's one_hot may raise; after the loop _pad takes max() over src
\* (ValueError if nothing is left) and len() of each x_t (TypeError on a
\* 0-d tensor).
D3PMError(sequences, build) ==
  IF Len(sequences) = 0 THEN "ValueError"
  ELSE
    LET all == [i \in 1..Len(sequences) |-> tokenize(sequences[i])]
        tokenized == Pop(all, DelIndex(all))
        empties == {i \in 1..Len(tokenized) : Len(tokenized[i]) = 0}
        singles == {i \in 1..Len(tokenized) : Len(tokenized[i]) = 1}
        inloop == {i \in empties : build.multinomial_empty_raises}
                    \cup {i \in singles : build.one_hot_0d_raises}
        first == CHOOSE i \in inloop : \A k \in inloop : i <= k
    IN  IF inloop # {} THEN (IF first \in empties THEN "RuntimeError" ELSE "TypeError")
        ELSE IF Len(tokenized) = 0 THEN "ValueError"
        ELSE IF singles # {} THEN "TypeError"
        ELSE "none"

\* D3PMCollater.__call__(sequences) with the draws dr (one per example left
\* after the drop), when no exception ends it.
D3PMCollater(sequences, dr) ==
  LET all == [i \in 1..Len(sequences) |-> tokenize(sequences[i])]
      max_len == Max({Len(t) : t \in Range(all)})
      tokenized == Pop(all, DelIndex(all))
      n == Len(tokenized)
      one_hot_all == [i \in 1..n |-> IntoZeros(one_hot(tokenized[i]), max_len)]
      sampled == [i \in 1..n |->
                    sample_transition_matrix(SubSeq(one_hot_all[i], 1, Len(tokenized[i])),
                                             Q_bar[dr[i].t], dr[i].pick)]
      src == [i \in 1..n |-> sampled[i].next_step.data]
  IN  Returned([src |-> Pad(src, pad_id, 2).value,
                src_one_hot |-> [i \in 1..n |-> IntoZeros(one_hot(src[i]), max_len)],
                timesteps |-> [i \in 1..n |-> dr[i].t],
                tokenized |-> Pad(tokenized, pad_id, 2).value,
                one_hot |-> one_hot_all,
                Q |-> "self.Q",
                Q_bar |-> "self.Q_bar",
                q_x |-> [i \in 1..n |-> IntoZeros(sampled[i].p_next_step, max_len)]])

\* The clean one-hot rows of the examples the D3PM loop runs over.
D3PMLoopInputs(sequences) ==
  LET all == [i \in 1..Len(sequences) |-> tokenize(sequences[i])]
      tokenized == Pop(all, DelIndex(all))
  IN  [i \in 1..Len(tokenized) |-> one_hot(tokenized[i])]

\* ----------------------------------------------------- D3PMCollaterMSA
\* x.flatten(start_dim=0, end_dim=1) of a (length, depth, K) tensor.
FlattenMSA(m) == Concat(m)
\* x.reshape(length, depth) of a flat tensor.
Reshape(flat, length, depth) ==
  [r \in 1..length |-> [j \in 1..depth |-> flat[(r - 1) * depth + j]]]

\* The exception the call ends with whatever is drawn: max() of an empty
\* batch, torch.multinomial on an MSA without positions (on builds where it
\* raises), or `q_x[i, :, :depth, :] = q_x_t` for an MSA whose row count is
\* neither num_seqs nor 1.
D3PMMSAError(msas, build) ==
  IF Len(msas) = 0 THEN "ValueError"
  ELSE IF \E i \in 1..Len(msas) :
            \/ Depth(msas[i]) = 0 /\ build.multinomial_empty_raises
            \/ ~FitsMSA(msas[i], NumSeqs)
    THEN "RuntimeError"
  ELSE "none"

\* D3PMCollaterMSA.__call__(msas) with the draws dr (one per MSA), when no
\* exception ends it.
D3PMCollaterMSA(msas, dr) ==
  LET n == Len(msas)
      max_seq_len == Max({Depth(m) : m \in Range(msas)})
      tokenized == [i \in 1..n |-> TokenizedMSA(msas[i])]
      tgt_one_hot == [i \in 1..n |-> OneHotMSA(msas[i])]
      sampled == [i \in 1..n |->
                    sample_transition_matrix(FlattenMSA(tgt_one_hot[i]), Q_bar[dr[i].t], dr[i].pick)]
      src == [i \in 1..n |-> Reshape(sampled[i].next_step.data, Len(msas[i]), Depth(msas[i]))]
      src_one_hot == [i \in 1..n |-> [r \in 1..Len(msas[i]) |-> one_hot(src[i][r])]]
      q_x_t == [i \in 1..n |-> Reshape(sampled[i].p_next_step, Len(msas[i]), Depth(msas[i]))]
  IN  Returned([src |-> PadMSA(src, NumSeqs, max_seq_len, pad_id, 3).value,
                src_one_hot |-> PadMSA(src_one_hot, NumSeqs, max_seq_len, pad_id, 4).value,
                timesteps |-> [i \in 1..n |-> dr[i].t],
                tokenized |-> PadMSA(tokenized, NumSeqs, max_seq_len, pad_id, 3).value,
                tgt_one_hot |-> PadMSA(tgt_one_hot, NumSeqs, max_seq_len, pad_id, 4).value,
                Q |-> "self.Q",
                Q_bar |-> "self.Q_bar",
                q_x |-> [i \in 1..n |->
                           [r \in 1..NumSeqs |->
                              IntoZeros(q_x_t[i][IF Len(msas[i]) = 1 THEN 1 ELSE r], max_seq_len)]]])

\* ------------------------------------------------- seeded generators
\* The two global generators a collater draws from: numpy's (np.random.*)
\* and torch's (torch.multinomial).  A generator is a state that every draw
\* advances; the value drawn is a function of the state alone.  The states
\* are those of a small full-period congruential generator.
NextState(g) == (5 * g + 3) % 16
\* The state np.random.seed(seed) / torch.random.manual_seed(seed) leaves.
InitialState(seed) == (7 * seed) % 16

\* No seed set (or a free draw made since): the states are not tracked.
Unseeded == [seeded |-> FALSE, seed |-> 0, np |-> 0, torch |-> 0]

\* Mutant of SeededState: torch.random.manual_seed is left out, the torch
\* generator keeps the state it had.
SeededState_NumpyOnly(seed, old) ==
  [seeded |-> TRUE, seed |-> seed, np |-> InitialState(seed), torch |-> old.torch]

\* train.py lines 33-35: both generators seeded with random_seed.
SeededState(seed, old) ==
  [seeded |-> TRUE, seed |-> seed, np |-> InitialState(seed), torch |-> InitialState(seed)]

\* np.random.randint(low, high) from state g: the value and the next state.
NpRandInt(g, low, high) ==
  [value |-> low + (NextState(g) % (high - low)), state |-> NextState(g)]

\* np.random.choice(a) from state g.
NpChoiceOne(g, a) == [value |-> NextState(g) % a, state |-> NextState(g)]

RECURSIVE NpChoiceFrom(_, _, _)
\* `size` distinct elements of `remaining`, one draw each.
NpChoiceFrom(g, remaining, size) ==
  IF size = 0 THEN [value |-> {}, state |-> g]
  ELSE LET g1 == NextState(g)
           k == g1 % Cardinality(remaining)
           x == CHOOSE e \in remaining : Cardinality({y \in remaining : y < e}) = k
           rest == NpChoiceFrom(g1, remaining \ {x}, size - 1)
       IN  [value |-> {x} \cup rest.value, state |-> rest.state]

\* np.random.choice(a, size, replace=False) from state g.
NpChoice(g, a, size) == NpChoiceFrom(g, 0..(a - 1), size)

RECURSIVE TorchMultinomialFrom(_, _, _)
\* One index per row of p from row r on, drawn by inverting the row's
\* cumulative weights at a point the state gives.
TorchMultinomialFrom(g, p, r) ==
  IF r > Len(p) THEN [value |-> <<>>, state |-> g]
  ELSE LET g1 == NextState(g)
           u == g1 % SumTo(p[r], K)
           c == CHOOSE k \in 1..K : SumTo(p[r], k) > u /\ SumTo(p[r], k - 1) <= u
           rest == TorchMultinomialFrom(g1, p, r + 1)
       IN  [value |-> <<c - 1>> \o rest.value, state |-> rest.state]

\* torch.multinomial(p, num_samples=1) from state g.
TorchMultinomial(g, p) == TorchMultinomialFrom(g, p, 1)

RECURSIVE SeededOADraws(_, _, _)
\* The draws of OAMaskCollater's loop from example i on (lines 89-100), and
\* the generator states the loop leaves.
SeededOADraws(lens, i, r) ==
  IF i > Len(lens) THEN [draws |-> <<>>, rng |-> r]
  ELSE LET D == lens[i]
           t == IF D <= 1 THEN [value |-> 1, state |-> r.np] ELSE NpRandInt(r.np, 1, D)
           mask_arr == NpChoice(t.state, D, D - t.value + 1)
           rest == SeededOADraws(lens, i + 1, [r EXCEPT !.np = mask_arr.state])
       IN  [draws |-> <<[t |-> t.value, mask_arr |-> mask_arr.value]>> \o rest.draws,
            rng |-> rest.rng]

RECURSIVE SeededMSAOADraws(_, _, _)
\* The draws of MSAAbsorbingARDMCollater's loop from MSA i on (lines 157-161).
SeededMSAOADraws(ds, i, r) ==
  IF i > Len(ds) THEN [draws |-> <<>>, rng |-> r]
  ELSE LET c == NpChoiceOne(r.np, ds[i])
           t == c.value + 1
           mask_idx == NpChoice(c.state, ds[i], ds[i] - t + 1)
           rest == SeededMSAOADraws(ds, i + 1, [r EXCEPT !.np = mask_idx.state])
       IN  [draws |-> <<[t |-> t, mask_idx |-> mask_idx.value]>> \o rest.draws,
            rng |-> rest.rng]

RECURSIVE SeededD3PMDraws(_, _, _)
\* The draws of the D3PM loops from example / MSA i on (lines 230-234,
\* 279-282): t from numpy's generator, the sample from torch's.
SeededD3PMDraws(xs, i, r) ==
  IF i > Len(xs) THEN [draws |-> <<>>, rng |-> r]
  ELSE LET t == NpRandInt(r.np, 1, NumTimesteps)
           pick == TorchMultinomial(r.torch, MatMul(xs[i], Q_bar[t.value]))
           rest == SeededD3PMDraws(xs, i + 1,
                                   [r EXCEPT !.np = t.state, !.torch = pick.state])
       IN  [draws |-> <<[t |-> t.value, pick |-> pick.value]>> \o rest.draws,
            rng |-> rest.rng]

\* ------------------------------------------------- objects and writes
\* What the constructors leave in the collaters' attributes (lines 79-80,
\* 133-136, 193-198, 251-257).
Configured ==
  [tokenizer |-> "tokenizer", num_timesteps |-> NumTimesteps, K |-> K, Q |-> "self.Q",
   Q_bar |-> "self.Q_bar", num_seqs |-> NumSeqs, pad_idx |-> pad_idx]

\* The list objects a call can name: the caller's raw batch and the lists
\* the call binds to its locals; "self" is the collater.
HeapObjects == {"self", "batch", "tokenized", "tgt", "src", "src_one_hot", "tgt_one_hot"}

\* An item of a list, with who made it: the caller (a string or an MSA of
\* the raw batch) or the call (a tensor).
ByCaller(x) == [made_by |-> "caller", value |-> x]
ByCall(x) == [made_by |-> "call", value |-> x]
ItemsByCaller(batch) == [i \in 1..Len(batch) |-> ByCaller(batch[i])]
ItemsByCall(items) == [i \in 1..Len(items) |-> ByCall(items[i])]

\* The objects when a call starts: the collater as configured, the batch as
\* the caller built it, no local bound yet.
HeapAtCall(self, batch) ==
  [o \in HeapObjects |->
     IF o = "self" THEN self ELSE IF o = "batch" THEN ItemsByCaller(batch) ELSE <<>>]

\* Mutant of ListOf: the name is bound to the source list itself (`tgt =
\* batch_msa`), no copy is made.
ListOf_Alias(source, fresh) == source

\* list(x) and x.copy(): the object the new name refers to, a new list.
ListOf(source, fresh) == fresh

\* `new = list(old)`: the object `new` refers to holds what `old` holds.
Bind(h, new, old) == [h EXCEPT ![new] = h[old]]
\* `name[i] = items[i]` for every i of the loop.
StoreAll(h, name, items) == [h EXCEPT ![name] = ItemsByCall(items)]

\* OAMaskCollater.__call__: `tokenized` is a new list (line 83); nothing is
\* assigned into `sequences` or `self`.
OAMaskHeap(self, sequences) ==
  StoreAll(HeapAtCall(self, sequences), "tokenized",
           [i \in 1..Len(sequences) |-> tokenize(sequences[i])])

\* D3PMCollater.__call__: `tokenized` is a new list (line 204), and the pop
\* of line 218 is applied to it.
D3PMHeap(self, sequences) ==
  LET all == [i \in 1..Len(sequences) |-> tokenize(sequences[i])]
  IN  StoreAll(HeapAtCall(self, sequences), "tokenized", Pop(all, DelIndex(all)))

\* MSAAbsorbingARDMCollater.__call__: tgt = list(batch_msa), src =
\* tgt.copy() (lines 139-140); the loop assigns tgt[i] (147, 167) and src[i]
\* (148, 164).
MSAAbsorbingHeap(self, batch_msa) ==
  LET tgt == ListOf("batch", "tgt")
      src == ListOf(tgt, "src")
      h1 == Bind(HeapAtCall(self, batch_msa), tgt, "batch")
      h2 == Bind(h1, src, tgt)
      toks == [i \in 1..Len(batch_msa) |-> TokenizedMSA(batch_msa[i])]
  IN  StoreAll(StoreAll(h2, tgt, toks), src, toks)

\* D3PMCollaterMSA.__call__: tokenized = list(msas) (line 261), src,
\* src_one_hot and tgt_one_hot = tokenized.copy() (266-268); the loop
\* assigns tokenized[i] (273, 289), tgt_one_hot[i] (274, 291), src[i] (286)
\* and src_one_hot[i] (287, 290).
D3PMMSAHeap(self, msas) ==
  LET tokenized == ListOf("batch", "tokenized")
      src == ListOf(tokenized, "src")
      src_one_hot == ListOf(tokenized, "src_one_hot")
      tgt_one_hot == ListOf(tokenized, "tgt_one_hot")
      h1 == Bind(HeapAtCall(self, msas), tokenized, "batch")
      h2 == Bind(Bind(Bind(h1, src, tokenized), src_one_hot, tokenized), tgt_one_hot, tokenized)
      toks == [i \in 1..Len(msas) |-> TokenizedMSA(msas[i])]
      hots == [i \in 1..Len(msas) |-> OneHotMSA(msas[i])]
  IN  StoreAll(StoreAll(StoreAll(StoreAll(h2, tokenized, toks), tgt_one_hot, hots),
                        src, toks), src_one_hot, hots)

\* ------------------------------------------------------------- inputs
StringBatches == Batches(ResidueLetters, MaxTokens)
\* Batches of 1-D integer tensors handed to _pad directly.
\* Token sequences, and short batches that also hold an integer beyond float32.
PadElems == Residues \cup {BigInt}
TensorBatches == Batches(Residues, MaxTokens) \cup Batches(PadElems, MaxTokens - 3)
PadValues == {0, pad_id}
PadDims == 1..4
PadMSADims == 2..5

\* Aligned MSAs: `rows` strings of one length. Besides the configured
\* num_seqs, the data can hold MSAs of one sequence or of one too many.
RowCounts == {1, NumSeqs, NumSeqs + 1}
\* The MSA of a shape whose residues are rotated by s along rows and columns
\* (neighbouring rows and neighbouring columns differ).
RotatedMSA(rows, depth, s) ==
  [r \in 1..rows |-> [j \in 1..depth |-> CAN_AAS[((s + r + j) % K) + 1]]]
MSACost(rows, depth) == 2 + (IF depth = 0 THEN 1 ELSE rows * depth)
MSAsOfCost(w) ==
  UNION { {RotatedMSA(r, d, ph) : ph \in 0..(K - 1), d \in {x \in 0..w : MSACost(r, x) <= w}} :
          r \in RowCounts }

RECURSIVE MSABatchesOf(_)
\* Every batch of MSAs whose cost is at most w.
MSABatchesOf(w) ==
  IF w < 3 THEN {<<>>}
  ELSE {<<>>} \cup
       UNION { {<<m>> \o b : b \in MSABatchesOf(w - MSACost(Len(m), Depth(m)))} :
               m \in MSAsOfCost(w) }

MSABatches == MSABatchesOf(MaxCells)

\* ------------------------------------------------------------- state
Init ==
  /\ pc = "idle"
  /\ op = "none"
  /\ args = <<>>
  /\ draws = <<>>
  /\ console = <<>>
  /\ ret = <<>>
  /\ qbar_idx = {}
  /\ rng = Unseeded
  /\ kept = <<>>
  /\ config = Configured
  /\ raw = <<>>

\* The outcome of a call: the program counter says whether it returned.
Outcome(r) ==
  /\ ret' = r
  /\ pc' = IF IsReturned(r) THEN "returned" ELSE "raised"

\* What a call leaves of the collater and of the caller's raw batch.
Leaves(h) ==
  /\ config' = h["self"]
  /\ raw' = h["batch"]

\* The outcome of a call whose draws are left free: it stands for a call
\* from any generator state, and the state it leaves is not tracked.
Finish(r) ==
  /\ Outcome(r)
  /\ rng' = Unseeded
  /\ kept' = <<>>

\* _pad called on a batch of 1-D tensors (dim=2), or with a dim it does not
\* handle.
CallPad ==
  /\ pc = "idle"
  /\ \E tokenized \in TensorBatches, value \in PadValues, dim \in PadDims \ {3} :
       /\ op' = "_pad"
       /\ args' = [tokenized |-> tokenized, value |-> value, dim |-> dim]
       /\ console' = IF Len(tokenized) = 0 THEN <<>> ELSE PadPrints(dim)
       /\ Finish(Pad(tokenized, value, dim))
  /\ draws' = <<>>
  /\ qbar_idx' = {}
  /\ UNCHANGED <<config, raw>>

\* _pad called on a batch of one-hot tensors (dim=3).
CallPadOneHot ==
  /\ pc = "idle"
  /\ \E seqs \in StringBatches, value \in PadValues :
       LET tokenized == [i \in 1..Len(seqs) |-> OneHotTensor(tokenize(seqs[i]))]
       IN  /\ op' = "_pad"
           /\ args' = [tokenized |-> tokenized, value |-> value, dim |-> 3]
           /\ console' = <<>>
           /\ Finish(Pad(tokenized, value, 3))
  /\ draws' = <<>>
  /\ qbar_idx' = {}
  /\ UNCHANGED <<config, raw>>

\* unpad(pad_sequences(batch, value), value), the round trip of the spec.
CallPadUnpad ==
  /\ pc = "idle"
  /\ \E tokenized \in TensorBatches, value \in PadValues :
       LET padded == Pad(tokenized, value, 2)
       IN  /\ op' = "_unpad"
           /\ args' = [tokenized |-> tokenized, value |-> value, dim |-> 2]
           /\ console' = <<>>
           /\ Finish(IF IsReturned(padded)
                       THEN Returned(Unpad(padded.value, value))
                       ELSE padded)
  /\ draws' = <<>>
  /\ qbar_idx' = {}
  /\ UNCHANGED <<config, raw>>

\* The caller consumes the batch (or handles the exception); the next call
\* starts from the same configuration.
Release ==
  /\ pc \in {"returned", "raised"}
  /\ pc' = "idle"
  /\ op' = "none"
  /\ args' = <<>>
  /\ draws' = <<>>
  /\ console' = <<>>
  /\ ret' = <<>>
  /\ qbar_idx' = {}
  /\ rng' = Unseeded
  /\ kept' = <<>>
  /\ raw' = <<>>
  /\ UNCHANGED config

\* _pad_msa called as the collaters call it (max_len the longest depth), on
\* token MSAs (dim=3), one-hot MSAs (dim=4) or with a dim it does not handle.
CallPadMSA ==
  /\ pc = "idle"
  /\ \E msas \in MSABatches, value \in PadValues, dim \in PadMSADims :
       LET tokenized == [i \in 1..Len(msas) |->
                           IF dim = 4 THEN OneHotMSA(msas[i]) ELSE TokenizedMSA(msas[i])]
           max_len == LongestDepth(msas)
       IN  /\ op' = "_pad_msa"
           /\ args' = [tokenized |-> tokenized, num_seq |-> NumSeqs, max_len |-> max_len,
                       value |-> value, dim |-> dim]
           /\ console' = PadMSAPrints(dim)
           /\ Finish(PadMSA(tokenized, NumSeqs, max_len, value, dim))
  /\ draws' = <<>>
  /\ qbar_idx' = {}
  /\ UNCHANGED <<config, raw>>

NextPad == CallPad \/ CallPadOneHot \/ CallPadUnpad \/ CallPadMSA \/ Release

SpecPad == Init /\ [][NextPad]_vars

\* OAMaskCollater called on a batch of strings.
CallOAMask ==
  /\ pc = "idle"
  /\ \E sequences \in StringBatches :
       \E dr \in SeqProduct([i \in 1..Len(sequences) |-> OADraws(Len(sequences[i]))]) :
         /\ op' = "OAMaskCollater"
         /\ args' = [sequences |-> sequences]
         /\ Leaves(OAMaskHeap(config, sequences))
         /\ draws' = dr
         /\ Finish(OAMaskCollater(sequences, dr))
  /\ console' = <<>>
  /\ qbar_idx' = {}

NextOA == CallOAMask \/ Release

SpecOA == Init /\ [][NextOA]_vars

\* MSAAbsorbingARDMCollater called on a batch of MSAs.
CallMSAAbsorbing ==
  /\ pc = "idle"
  /\ \E batch_msa \in MSABatches :
       /\ op' = "MSAAbsorbingARDMCollater"
       /\ args' = [batch_msa |-> batch_msa]
       /\ Leaves(MSAAbsorbingHeap(config, batch_msa))
       /\ LET err == MSAAbsorbingError(batch_msa)
          IN  IF err # "none"
                THEN draws' = <<>> /\ Finish(Raised(err))
                ELSE \E dr \in SeqProduct([i \in 1..Len(batch_msa) |->
                                  MSAOADraws(Len(batch_msa[i]) * Depth(batch_msa[i]))]) :
                       draws' = dr /\ Finish(MSAAbsorbingARDMCollater(batch_msa, dr))
  /\ console' = <<>>
  /\ qbar_idx' = {}

\* D3PMCollater called on a batch of strings.
CallD3PM ==
  /\ pc = "idle"
  /\ \E sequences \in StringBatches :
       /\ op' = "D3PMCollater"
       /\ args' = [sequences |-> sequences]
       /\ Leaves(D3PMHeap(config, sequences))
       /\ \E err \in {D3PMError(sequences, build) : build \in Builds} :
            IF err # "none"
              THEN draws' = <<>> /\ qbar_idx' = {} /\ Finish(Raised(err))
              ELSE LET x == D3PMLoopInputs(sequences)
                   IN  \E dr \in SeqProduct([i \in 1..Len(x) |-> D3PMDraws(x[i])]) :
                         /\ draws' = dr
                         /\ qbar_idx' = {dr[i].t : i \in 1..Len(dr)}
                         /\ Finish(D3PMCollater(sequences, dr))
  /\ console' = <<>>

\* D3PMCollaterMSA called on a batch of MSAs.
CallD3PMMSA ==
  /\ pc = "idle"
  /\ \E msas \in MSABatches :
       /\ op' = "D3PMCollaterMSA"
       /\ args' = [msas |-> msas]
       /\ Leaves(D3PMMSAHeap(config, msas))
       /\ \E err \in {D3PMMSAError(msas, build) : build \in Builds} :
            IF err # "none"
              THEN draws' = <<>> /\ qbar_idx' = {} /\ Finish(Raised(err))
              ELSE \E dr \in SeqProduct([i \in 1..Len(msas) |->
                                D3PMDraws(FlattenMSA(OneHotMSA(msas[i])))]) :
                     /\ draws' = dr
                     /\ qbar_idx' = {dr[i].t : i \in 1..Len(dr)}
                     /\ Finish(D3PMCollaterMSA(msas, dr))
  /\ console' = <<>>

\* sample_transition_matrix called on the one-hot rows of a token sequence
\* and one matrix of the cumulative schedule.
CallSampleTransitionMatrix ==
  /\ pc = "idle"
  /\ \E seqs \in {b \in StringBatches : Len(b) = 1}, t \in 0..NumTimesteps,
        empty_raises \in {b.multinomial_empty_raises : b \in Builds} :
       LET x_0 == one_hot(tokenize(seqs[1]))
       IN  /\ op' = "sample_transition_matrix"
           /\ args' = [x_0 |-> x_0, t |-> t]
           /\ qbar_idx' = {t}
           /\ IF Len(x_0) = 0 /\ empty_raises
                THEN draws' = <<>> /\ Finish(Raised("RuntimeError"))
                ELSE \E pick \in Multinomial(MatMul(x_0, Q_bar[t])) :
                       /\ draws' = <<[t |-> t, pick |-> pick]>>
                       /\ Finish(Returned(sample_transition_matrix(x_0, Q_bar[t], pick)))
  /\ console' = <<>>
  /\ UNCHANGED <<config, raw>>

NextMSA == CallPadMSA \/ CallMSAAbsorbing \/ CallD3PMMSA \/ Release

SpecMSA == Init /\ [][NextMSA]_vars

NextD3PM == CallSampleTransitionMatrix \/ CallD3PM \/ CallD3PMMSA \/ Release

SpecD3PM == Init /\ [][NextD3PM]_vars

\* train.py lines 33-35: the process seeds both global generators.
SeedGenerators ==
  /\ pc = "idle"
  /\ ~rng.seeded
  /\ \E seed \in 1..MaxSeed : rng' = SeededState(seed, rng)
  /\ UNCHANGED <<pc, op, args, draws, console, ret, qbar_idx, kept, config, raw>>

\* What a call of collater `name` can be given: anything of `all` when
\* nothing is kept, else only what the kept call of that collater was given.
Repeated(name, all, same) ==
  IF kept = <<>> THEN all ELSE IF kept[1].op = name THEN {same} ELSE {}

\* OAMaskCollater called with the generators in a known state.
CallSeededOAMask ==
  /\ pc = "idle"
  /\ rng.seeded
  /\ \E sequences \in Repeated("OAMaskCollater", StringBatches, kept[1].args.sequences) :
       LET sd == SeededOADraws([i \in 1..Len(sequences) |-> Len(sequences[i])], 1, rng)
       IN  /\ op' = "OAMaskCollater"
           /\ args' = [sequences |-> sequences]
           /\ Leaves(OAMaskHeap(config, sequences))
           /\ IF Len(sequences) = 0
                THEN draws' = <<>> /\ rng' = rng /\ Outcome(Raised("ValueError"))
                ELSE draws' = sd.draws /\ rng' = sd.rng
                       /\ Outcome(OAMaskCollater(sequences, sd.draws))
  /\ console' = <<>>
  /\ qbar_idx' = {}
  /\ UNCHANGED kept

\* MSAAbsorbingARDMCollater called with the generators in a known state.
CallSeededMSAAbsorbing ==
  /\ pc = "idle"
  /\ rng.seeded
  /\ \E batch_msa \in Repeated("MSAAbsorbingARDMCollater", MSABatches,
                                kept[1].args.batch_msa) :
       LET err == MSAAbsorbingError(batch_msa)
           sd == SeededMSAOADraws([i \in 1..Len(batch_msa) |->
                                    Len(batch_msa[i]) * Depth(batch_msa[i])], 1, rng)
       IN  /\ op' = "MSAAbsorbingARDMCollater"
           /\ args' = [batch_msa |-> batch_msa]
           /\ Leaves(MSAAbsorbingHeap(config, batch_msa))
           /\ IF err # "none"
                THEN draws' = <<>> /\ rng' = rng /\ Outcome(Raised(err))
                ELSE draws' = sd.draws /\ rng' = sd.rng
                       /\ Outcome(MSAAbsorbingARDMCollater(batch_msa, sd.draws))
  /\ console' = <<>>
  /\ qbar_idx' = {}
  /\ UNCHANGED kept

\* D3PMCollater called with the generators in a known state, on one build
\* of the libraries (the same for a repeated call).
CallSeededD3PM ==
  /\ pc = "idle"
  /\ rng.seeded
  /\ \E sequences \in Repeated("D3PMCollater", StringBatches, kept[1].args.sequences),
        build \in Repeated("D3PMCollater", Builds, kept[1].args.build) :
       LET err == D3PMError(sequences, build)
           sd == SeededD3PMDraws(D3PMLoopInputs(sequences), 1, rng)
       IN  /\ op' = "D3PMCollater"
           /\ args' = [sequences |-> sequences, build |-> build]
           /\ Leaves(D3PMHeap(config, sequences))
           /\ IF err # "none"
                THEN draws' = <<>> /\ rng' = rng /\ qbar_idx' = {} /\ Outcome(Raised(err))
                ELSE /\ draws' = sd.draws
                     /\ rng' = sd.rng
                     /\ qbar_idx' = {sd.draws[i].t : i \in 1..Len(sd.draws)}
                     /\ Outcome(D3PMCollater(sequences, sd.draws))
  /\ console' = <<>>
  /\ UNCHANGED kept

\* D3PMCollaterMSA called with the generators in a known state.
CallSeededD3PMMSA ==
  /\ pc = "idle"
  /\ rng.seeded
  /\ \E msas \in Repeated("D3PMCollaterMSA", MSABatches, kept[1].args.msas),
        build \in Repeated("D3PMCollaterMSA", Builds, kept[1].args.build) :
       LET err == D3PMMSAError(msas, build)
           sd == SeededD3PMDraws([i \in 1..Len(msas) |-> FlattenMSA(OneHotMSA(msas[i]))],
                                 1, rng)
       IN  /\ op' = "D3PMCollaterMSA"
           /\ args' = [msas |-> msas, build |-> build]
           /\ Leaves(D3PMMSAHeap(config, msas))
           /\ IF err # "none"
                THEN draws' = <<>> /\ rng' = rng /\ qbar_idx' = {} /\ Outcome(Raised(err))
                ELSE /\ draws' = sd.draws
                     /\ rng' = sd.rng
                     /\ qbar_idx' = {sd.draws[i].t : i \in 1..Len(sd.draws)}
                     /\ Outcome(D3PMCollaterMSA(msas, sd.draws))
  /\ console' = <<>>
  /\ UNCHANGED kept

\* The caller keeps what the first invocation gave and sets the generators
\* back to the seed they started from, for a second, independent invocation.
ReseedSame ==
  /\ pc \in {"returned", "raised"}
  /\ rng.seeded
  /\ kept = <<>>
  /\ kept' = <<[op |-> op, args |-> args, ret |-> ret]>>
  /\ rng' = SeededState(rng.seed, rng)
  /\ pc' = "idle"
  /\ op' = "none"
  /\ args' = <<>>
  /\ draws' = <<>>
  /\ console' = <<>>
  /\ ret' = <<>>
  /\ qbar_idx' = {}
  /\ raw' = <<>>
  /\ UNCHANGED config

NextSeeded ==
  \/ SeedGenerators
  \/ CallSeededOAMask
  \/ CallSeededMSAAbsorbing
  \/ CallSeededD3PM
  \/ CallSeededD3PMMSA
  \/ ReseedSame
  \/ Release

SpecSeeded == Init /\ [][NextSeeded]_vars

NextAbsorbing == CallOAMask \/ CallMSAAbsorbing \/ Release

SpecAbsorbing == Init /\ [][NextAbsorbing]_vars

\* --------------------------------------------------- train.py: step
\* The tuple OAMaskCollater returns (collaters.py line 112), in its order.
OATuple(v) == <<v.src, v.timesteps, v.tokenized, v.masks>>
\* The tuple D3PMCollater returns (collaters.py lines 244-245), in its order.
D3PMTuple(v) ==
  <<v.src, v.src_one_hot, v.timesteps, v.tokenized, v.one_hot, v.Q, v.Q_bar, v.q_x>>

\* args.mask of train.py and the collater it configures (lines 134-145).
MaskModes == {"autoreg", "blosum", "random"}
CollaterOf(mask) == IF mask = "autoreg" THEN "OAMaskCollater" ELSE "D3PMCollater"

\* The names step binds from a batch (lines 363-369), in order.
StepNames(mask) ==
  IF mask \in {"blosum", "random"}
    THEN <<"src", "timestep", "tgt", "Q", "q", "q_minus1">>
    ELSE <<"src", "timestep", "tgt", "mask">>

\* `a, b, ... = batch`: ValueError unless the tuple has as many fields as
\* there are names; else the k-th name is bound to the k-th field.
Unpack(names, batch) ==
  IF Len(batch) # Len(names) THEN Raised("ValueError")
  ELSE Returned([n \in Range(names) |->
                  batch[CHOOSE k \in 1..Len(names) : names[k] = n]])

\* step(model, batch, train) up to its unpacking of the batch that the
\* configured collater returned.
Step ==
  /\ pc = "returned"
  /\ op \in {"OAMaskCollater", "D3PMCollater"}
  /\ \E mask \in {mm \in MaskModes : CollaterOf(mm) = op} :
       LET batch == IF op = "OAMaskCollater" THEN OATuple(ret.value)
                                            ELSE D3PMTuple(ret.value)
       IN  /\ args' = [mask |-> mask, batch |-> batch]
           /\ Outcome(Unpack(StepNames(mask), batch))
  /\ op' = "step"
  /\ UNCHANGED <<draws, console, qbar_idx, rng, kept>>
  /\ UNCHANGED <<config, raw>>

NextTrain == CallOAMask \/ CallD3PM \/ Step \/ Release

SpecTrain == Init /\ [][NextTrain]_vars

Next ==
  NextPad \/ NextOA \/ NextMSA \/ NextAbsorbing \/ NextD3PM \/ NextSeeded \/ NextTrain

Spec == Init /\ [][Next]_vars

\* =================================================================
\* Properties
\* =================================================================
TokenIds == 0..(Len(Alphabet) - 1)
IsTokenBatch(b) == \A i \in 1..Len(b) : \A j \in 1..Len(b[i]) : b[i][j] \in TokenIds
ExampleLen(t, dim) == IF dim = 3 THEN Len(t.rows) ELSE Len(t)
ValueAbsent(b, value) == \A i \in 1..Len(b) : \A j \in 1..Len(b[i]) : b[i][j] # value

\* C3: _pad on a non-empty ragged batch of token sequences (dim=2) or of
\* one-hot sequences (dim=3) returns a (batch_size, max_length[, categories])
\* tensor; row i holds example i unchanged in [0, len_i) and pad_value at
\* every position from len_i to max_length - 1.
C3_PadShapeAndFill ==
  (/\ op = "_pad"
   /\ args.dim \in {2, 3}
   /\ Len(args.tokenized) > 0
   /\ (args.dim = 2 => IsTokenBatch(args.tokenized)))
  => /\ pc = "returned"
     /\ LET b == args.tokenized
            dim == args.dim
            out == ret.value
            max_length == Max({ExampleLen(b[i], dim) : i \in 1..Len(b)})
        IN  /\ Len(out) = Len(b)
            /\ \A i \in 1..Len(b) :
                 /\ Len(out[i]) = max_length
                 /\ \A j \in 1..max_length :
                      out[i][j] =
                        IF j <= ExampleLen(b[i], dim)
                          THEN (IF dim = 3 THEN b[i].rows[j] ELSE b[i][j])
                          ELSE (IF dim = 3 THEN [c \in 1..b[1].cats |-> args.value]
                                           ELSE args.value)

\* A dim=2 call on token sequences of two different non-zero lengths.
C3_Witness ==
  /\ op = "_pad"
  /\ pc = "returned"
  /\ args.dim = 2
  /\ args.value = pad_id
  /\ IsTokenBatch(args.tokenized)
  /\ \E i, k \in 1..Len(args.tokenized) :
       0 < Len(args.tokenized[i]) /\ Len(args.tokenized[i]) < Len(args.tokenized[k])

RoundTripCase ==
  /\ op = "_unpad"
  /\ Len(args.tokenized) > 0
  /\ IsTokenBatch(args.tokenized)
  /\ ValueAbsent(args.tokenized, args.value)

\* C4 (as stated): the round trip recovers the individual sequences with
\* their boundaries, i.e. no other batch gives the same unpadded result
\* (even among batches of non-empty sequences).
C4_RoundTripRecoversSequences ==
  (RoundTripCase /\ \A i \in 1..Len(args.tokenized) : Len(args.tokenized[i]) > 0)
  => /\ pc = "returned"
     /\ \A b2 \in TensorBatches :
          (/\ Len(b2) > 0
           /\ \A i \in 1..Len(b2) : Len(b2[i]) > 0
           /\ IsTokenBatch(b2)
           /\ ValueAbsent(b2, args.value)
           /\ Unpad(Pad2(b2, args.value), args.value) = ret.value)
          => b2 = args.tokenized

\* C4 (amended): for a non-empty batch of token sequences and a pad_value
\* that occurs in none of them, unpad(pad_sequences(batch)) is the single
\* flat sequence of all their tokens, in batch order and in-sequence order.
C4_UnpadIsConcatenation ==
  RoundTripCase => (pc = "returned" /\ ret.value = Concat(args.tokenized))

\* A round trip of two sequences of different non-zero lengths.
C4_Witness ==
  /\ RoundTripCase
  /\ pc = "returned"
  /\ \E i, k \in 1..Len(args.tokenized) :
       0 < Len(args.tokenized[i]) /\ Len(args.tokenized[i]) < Len(args.tokenized[k])

UnsupportedRankCall ==
  \/ op = "_pad" /\ args.dim \notin {2, 3} /\ Len(args.tokenized) > 0
  \/ op = "_pad_msa" /\ args.dim \notin {3, 4}

\* C5: a call of _pad / _pad_msa for an unsupported rank fails with an error
\* raised on purpose (not the interpreter's UnboundLocalError for a name the
\* function never bound), prints nothing, and returns no tensor.
C5_UnsupportedRankRaisesExplicitly ==
  UnsupportedRankCall
  => /\ pc = "raised"
     /\ ret.exc # "UnboundLocalError"
     /\ console = <<>>

OAReturned == op = "OAMaskCollater" /\ pc = "returned"
\* The clean tokens of example i (the collater's `tokenized` before padding).
OAClean(i) == tokenize(args.sequences[i])
\* Positions of the unpadded corrupted sequence that differ from the clean one.
OAChanged(i) == {j \in 1..Len(OAClean(i)) : ret.value.src[i][j] # OAClean(i)[j]}

\* C1: for every example of length D > 1 and every timestep drawn, num_mask =
\* D - t + 1 lies in [2, D]; exactly num_mask positions of the unpadded
\* corrupted sequence differ from the clean one, each holding mask_id, and
\* every other position keeps its clean token.
C1_OAMaskCount ==
  OAReturned =>
    \A i \in 1..Len(args.sequences) :
      LET D == Len(OAClean(i))
          num_mask == D - draws[i].t + 1
      IN  D > 1 =>
            /\ num_mask \in 2..D
            /\ ret.value.timesteps[i] = num_mask
            /\ Cardinality(OAChanged(i)) = num_mask
            /\ \A j \in 1..D :
                 IF j \in OAChanged(i)
                   THEN ret.value.src[i][j] = mask_id
                   ELSE ret.value.src[i][j] = OAClean(i)[j] /\ OAClean(i)[j] \in Residues

\* An example of length 3 with t = 2: two positions masked, one kept.
C1_Witness ==
  /\ OAReturned
  /\ \E i \in 1..Len(args.sequences) :
       /\ Len(OAClean(i)) = 3
       /\ draws[i].t = 2
       /\ Cardinality(OAChanged(i)) = 2

\* C2: in the padded output, the mask row of example i is 1 exactly at the
\* positions j < D_i where source holds mask_id, which are timestep[i]
\* positions, and 0 everywhere else, padded positions included; at every
\* padded position source and target equal pad_id.
C2_OAMaskRowAndPadding ==
  OAReturned =>
    LET out == ret.value
        max_len == Max({Len(OAClean(i)) : i \in 1..Len(args.sequences)})
    IN  \A i \in 1..Len(args.sequences) :
          LET D == Len(OAClean(i))
              ones == {j \in 1..max_len : out.masks[i][j] = 1}
          IN  /\ Len(out.masks[i]) = max_len
              /\ Len(out.src[i]) = max_len
              /\ Len(out.tokenized[i]) = max_len
              /\ ones = {j \in 1..D : out.src[i][j] = mask_id}
              /\ Cardinality(ones) = out.timesteps[i]
              /\ \A j \in 1..max_len : j \notin ones => out.masks[i][j] = 0
              /\ \A j \in (D + 1)..max_len :
                   out.src[i][j] = pad_id /\ out.tokenized[i][j] = pad_id

\* A batch with an example of length 3, two of its positions masked, beside
\* a shorter example that is padded.
C2_Witness ==
  /\ OAReturned
  /\ \E i, k \in 1..Len(args.sequences) :
       /\ 0 < Len(OAClean(i))
       /\ Len(OAClean(i)) < Len(OAClean(k))
       /\ Len(OAClean(k)) = 3
       /\ ret.value.timesteps[k] = 2

MSAReturned == op = "MSAAbsorbingARDMCollater" /\ pc = "returned"
\* The positions of the unpadded corrupted MSA i that hold mask_id.
MSAMasked(i) ==
  {rj \in (1..Len(args.batch_msa[i])) \X (1..Depth(args.batch_msa[i])) :
     ret.value.src[i][rj[1]][rj[2]] = mask_id}

AllNumSeqs(msas) == \A i \in 1..Len(msas) : Len(msas[i]) = NumSeqs
\* `out` is `own` (a batch of (num_seqs, depth[, K]) tensors) padded with
\* `fill` to (batch_size, num_seqs, max_depth[, K]).
PaddedMSAOk(out, own, fill) ==
  /\ Len(out) = Len(own)
  /\ \A i \in 1..Len(own) :
       /\ Len(out[i]) = NumSeqs
       /\ \A r \in 1..NumSeqs :
            /\ Len(out[i][r]) = LongestDepth(own)
            /\ \A j \in 1..LongestDepth(own) :
                 out[i][r][j] = IF j <= Depth(own[i]) THEN own[i][r][j] ELSE fill
FillRow(value) == [c \in 1..K |-> value]
D3PMMSAReturned == op = "D3PMCollaterMSA" /\ pc = "returned"
\* The corrupted MSA i of D3PMCollaterMSA before padding: the sample reshaped.
D3PMMSASrc(i) == Reshape(draws[i].pick, Len(args.msas[i]), Depth(args.msas[i]))

\* C7: for a batch of MSAs that all have num_seqs rows, every tensor padded
\* by _pad_msa (called directly with dim 3 or 4, or by the two MSA
\* collaters) has shape (batch_size, num_seqs, max_depth[, K]); each MSA
\* keeps its own values in [0, depth) and every trailing position is pad_id
\* (the pad value of the call).
C7_MSAPaddingShape ==
  /\ (op = "_pad_msa" /\ args.dim \in {3, 4} /\ Len(args.tokenized) > 0
        /\ AllNumSeqs(args.tokenized))
     => /\ pc = "returned"
        /\ PaddedMSAOk(ret.value, args.tokenized,
                       IF args.dim = 4 THEN FillRow(args.value) ELSE args.value)
  /\ (MSAReturned /\ AllNumSeqs(args.batch_msa))
     => LET tgt == [i \in 1..Len(args.batch_msa) |-> TokenizedMSA(args.batch_msa[i])]
            src == [i \in 1..Len(args.batch_msa) |-> MSAMaskTokens(tgt[i], draws[i].mask_idx)]
        IN  /\ PaddedMSAOk(ret.value.tgt, tgt, pad_id)
            /\ PaddedMSAOk(ret.value.src, src, pad_id)
  /\ (D3PMMSAReturned /\ AllNumSeqs(args.msas))
     => LET n == Len(args.msas)
            src == [i \in 1..n |-> D3PMMSASrc(i)]
        IN  /\ PaddedMSAOk(ret.value.tokenized, [i \in 1..n |-> TokenizedMSA(args.msas[i])], pad_id)
            /\ PaddedMSAOk(ret.value.tgt_one_hot, [i \in 1..n |-> OneHotMSA(args.msas[i])],
                           FillRow(pad_id))
            /\ PaddedMSAOk(ret.value.src, src, pad_id)
            /\ PaddedMSAOk(ret.value.src_one_hot,
                           [i \in 1..n |-> [r \in 1..NumSeqs |-> one_hot(src[i][r])]],
                           FillRow(pad_id))

\* D3PMCollaterMSA returns a batch of two well-formed MSAs of different depth.
C7_Witness ==
  /\ D3PMMSAReturned
  /\ AllNumSeqs(args.msas)
  /\ \E i, k \in 1..Len(args.msas) :
       0 < Depth(args.msas[i]) /\ Depth(args.msas[i]) < Depth(args.msas[k])

D3PMCalled == op = "D3PMCollater"
\* The non-empty examples of the batch, tokenized, in their original order.
NonEmptyTokenized ==
  SelectSeq([i \in 1..Len(args.sequences) |-> tokenize(args.sequences[i])],
            LAMBDA t : Len(t) > 0)

\* C8: D3PMCollater drops every example that tokenizes to zero length,
\* however many there are and wherever they stand: the call returns, every
\* field with a batch axis has as many rows as there are non-empty examples,
\* and the clean tokens are the non-empty examples in their original order.
\* (Stated for batches whose non-empty examples have at least two tokens.)
C8_EveryEmptyExampleDropped ==
  (/\ D3PMCalled
   /\ Len(NonEmptyTokenized) > 0
   /\ \A i \in 1..Len(NonEmptyTokenized) : Len(NonEmptyTokenized[i]) >= 2)
  => /\ pc = "returned"
     /\ ret.value.tokenized = Pad2(NonEmptyTokenized, pad_id)
     /\ \A f \in {"src", "src_one_hot", "timesteps", "tokenized", "one_hot", "q_x"} :
          Len(ret.value[f]) = Len(NonEmptyTokenized)

D3PMAnyReturned == op \in {"D3PMCollater", "D3PMCollaterMSA"} /\ pc = "returned"
\* The clean one-hot rows the loop of the call samples from, per example / MSA.
D3PMCleanRows ==
  IF op = "D3PMCollater" THEN D3PMLoopInputs(args.sequences)
  ELSE [i \in 1..Len(args.msas) |-> FlattenMSA(OneHotMSA(args.msas[i]))]

C10_OneIndexPerRow ==
  /\ (op = "sample_transition_matrix" /\ Len(args.x_0) >= 1)
     => /\ pc = "returned"
        /\ ret.value.next_step.shape = <<Len(args.x_0)>>
        /\ Len(ret.value.next_step.data) = Len(args.x_0)
        /\ Len(ret.value.p_next_step) = Len(args.x_0)
  /\ (D3PMCalled /\ Len(args.sequences) > 0
        /\ \A i \in 1..Len(args.sequences) : Len(args.sequences[i]) >= 1)
     => /\ pc = "returned"
        /\ \A i \in 1..Len(args.sequences) :
             /\ \A j \in 1..Len(args.sequences[i]) : ret.value.src[i][j] \in Residues
             /\ \A j \in (Len(args.sequences[i]) + 1)..Len(ret.value.src[i]) :
                  ret.value.src[i][j] = pad_id

\* The clean tokens of the examples D3PMCollater keeps after its drop.
D3PMKept == Pop([i \in 1..Len(args.sequences) |-> tokenize(args.sequences[i])],
                DelIndex([i \in 1..Len(args.sequences) |-> tokenize(args.sequences[i])]))
\* Row `tok` of the cumulative matrix of timestep t.
QBarRow(t, tok) == Q_bar[t][tok + 1]
\* The one-hot row of one token.
OneHotRow(tok) == one_hot(<<tok>>)[1]

C13_StepUnpacksCollaterTuple ==
  op = "step"
  => /\ Len(args.batch) = Len(StepNames(args.mask))
     /\ pc = "returned"
     /\ args.mask = "autoreg"
          => (/\ Len(args.batch) = 4
              /\ ret.value.src = args.batch[1]
              /\ ret.value.timestep = args.batch[2]
              /\ ret.value.tgt = args.batch[3]
              /\ ret.value.mask = args.batch[4])
     /\ args.mask \in {"blosum", "random"} => Len(args.batch) = 8

\* C14: a call of OAMaskCollater on a non-empty batch completes whatever the
\* lengths; for an example of tokenized length D <= 1 the timestep is t = 1
\* (the only value, nothing is drawn for it), the reported num_mask is
\* D - 1 + 1 = D, and all D positions of the example hold mask_id.
C14_OADegenerateLength ==
  (op = "OAMaskCollater" /\ Len(args.sequences) > 0)
  => /\ pc = "returned"
     /\ \A i \in 1..Len(args.sequences) :
          LET D == Len(OAClean(i))
          IN  D <= 1 =>
                /\ OATimesteps(D) = {1}
                /\ draws[i].t = 1
                /\ ret.value.timesteps[i] = D
                /\ \A j \in 1..D : ret.value.src[i][j] = mask_id
                /\ \A j \in 1..D : ret.value.masks[i][j] = 1

\* A returned batch that holds an empty example, an example of one token
\* and a longer one.
C14_Witness ==
  /\ OAReturned
  /\ \E i, k, l \in 1..Len(args.sequences) :
       /\ Len(OAClean(i)) = 0
       /\ Len(OAClean(k)) = 1
       /\ Len(OAClean(l)) > 1

\* C15: in both absorbing collaters, for an example (an MSA) of more than one
\* position the timestep is drawn from [1, D]: the values that can be drawn
\* are exactly 1..D, so the number of masked positions D - t + 1 can be any
\* value of 1..D; the timestep of every returned example lies in that range.
C15_AbsorbingTimestepRange ==
  /\ OAReturned
     => \A i \in 1..Len(args.sequences) :
          LET D == Len(OAClean(i))
          IN  D > 1 =>
                /\ draws[i].t \in 1..D
                /\ OATimesteps(D) = 1..D
                /\ {D - t + 1 : t \in OATimesteps(D)} = 1..D
  /\ MSAReturned
     => \A i \in 1..Len(args.batch_msa) :
          LET d == Len(args.batch_msa[i]) * Depth(args.batch_msa[i])
          IN  d > 1 =>
                /\ draws[i].t \in 1..d
                /\ MSAOATimesteps(d) = 1..d
                /\ {d - t + 1 : t \in MSAOATimesteps(d)} = 1..d

MSACollaterCalled == op \in {"MSAAbsorbingARDMCollater", "D3PMCollaterMSA"}
\* The raw batch of MSAs the call was given.
CalledMSAs == IF op = "MSAAbsorbingARDMCollater" THEN args.batch_msa ELSE args.msas

\* C16: a call of MSAAbsorbingARDMCollater or D3PMCollaterMSA on a batch
\* that holds an MSA whose number of sequences is not num_seqs (a single
\* sequence included) fails with an error; it never returns a batch in which
\* that MSA fills the num_seqs axis.
C16_MalformedMSARaises ==
  (MSACollaterCalled /\ \E i \in 1..Len(CalledMSAs) : Len(CalledMSAs[i]) # NumSeqs)
  => pc = "raised"

CollaterCalled ==
  op \in {"OAMaskCollater", "MSAAbsorbingARDMCollater", "D3PMCollater", "D3PMCollaterMSA"}
\* The raw batch as the caller built it before the call.
RawGiven ==
  IF op = "MSAAbsorbingARDMCollater" THEN args.batch_msa
  ELSE IF op = "D3PMCollaterMSA" THEN args.msas
  ELSE args.sequences

====
